---- MODULE Spec2Model ----
(***************************************************************************)
(* ipython_config.py: the configuration loader of the dotfiles repository. *)
(* The file obtains the host's configuration object (line 2) and assigns   *)
(* nine literals to nine section.field keys (lines 5-15).  The model keeps *)
(* one action per statement; pc is the line about to execute.              *)
(***************************************************************************)
EXTENDS Naturals, Sequences, FiniteSets

VARIABLES
    c,           \* the configuration object: a map from <<section, field>> to value
    bound,       \* whether the script's name c is bound (line 2 has run)
    pc,          \* line of the statement about to execute; EndOfFile when the pass is over
    todo,        \* lines of assignments not yet executed in this pass
    failure,     \* "none", "loader" (the script raised) or "host" (a later use failed)
    available,   \* what the host machine can resolve: editor binaries, extension modules
    c0,          \* history: the object as the host provided it
    writes,      \* history: number of writes per key in this pass
    passes,      \* history: number of completed passes
    snap,        \* history: the object when the first pass completed
    outOfOrder   \* history: an assignment ran while a source-earlier one was pending

vars == <<c, bound, pc, todo, failure, available, c0, writes, passes, snap, outOfOrder>>

(* ------------------------------- bounds -------------------------------- *)

\* keys present in the object the host provides (Spec, SpecTwice, FairSpec)
MaxPrior == 2
\* length of a pre-existing extensions list
MaxExt == 2
\* number of passes the host runs in SpecTwice
MaxPasses == 2
\* keys present in the object the host provides (SpecPerm)
MaxPriorPerm == 1
\* length of a pre-existing extensions list (SpecPerm)
MaxExtPerm == 1

(* ------------------------------ the file ------------------------------- *)

\* one past the last line of the file
EndOfFile == 16

extensions == <<"InteractiveShellApp", "extensions">>
autoindent == <<"InteractiveShell", "autoindent">>
colors == <<"InteractiveShell", "colors">>
confirm_exit == <<"InteractiveShell", "confirm_exit">>
deep_reload == <<"InteractiveShell", "deep_reload">>
editor == <<"InteractiveShell", "editor">>
xmode == <<"InteractiveShell", "xmode">>
justify == <<"PromptManager", "justify">>
multi_line_specials == <<"PrefilterManager", "multi_line_specials">>

\* the nine options the file sets
RecognizedKeys ==
    {extensions, autoindent, colors, confirm_exit, deep_reload, editor, xmode,
     justify, multi_line_specials}

\* the lines holding an assignment to the configuration object
Lines == {5, 8, 9, 10, 11, 12, 13, 14, 15}

\* a copy-paste slip: line 10 assigns autoindent instead of confirm_exit
TargetSlip(line) ==
    CASE line = 5 -> extensions
      [] line = 8 -> autoindent
      [] line = 9 -> colors
      [] line = 10 -> autoindent
      [] line = 11 -> deep_reload
      [] line = 12 -> editor
      [] line = 13 -> xmode
      [] line = 14 -> justify
      [] line = 15 -> multi_line_specials

\* a typo: line 13 assigns a field the host does not know
TargetTypo(line) ==
    CASE line = 5 -> extensions
      [] line = 8 -> autoindent
      [] line = 9 -> colors
      [] line = 10 -> confirm_exit
      [] line = 11 -> deep_reload
      [] line = 12 -> editor
      [] line = 13 -> <<"InteractiveShell", "xmodes">>
      [] line = 14 -> justify
      [] line = 15 -> multi_line_specials

\* the key the assignment on a line targets
Target(line) ==
    CASE line = 5 -> extensions
      [] line = 8 -> autoindent
      [] line = 9 -> colors
      [] line = 10 -> confirm_exit
      [] line = 11 -> deep_reload
      [] line = 12 -> editor
      [] line = 13 -> xmode
      [] line = 14 -> justify
      [] line = 15 -> multi_line_specials

\* the extensions listed in alphabetically descending order
LiteralReordered(line) ==
    CASE line = 5 -> <<"line_profiler", "autoreload">>
      [] line = 8 -> TRUE
      [] line = 9 -> "Linux"
      [] line = 10 -> FALSE
      [] line = 11 -> TRUE
      [] line = 12 -> "vim"
      [] line = 13 -> "Context"
      [] line = 14 -> TRUE
      [] line = 15 -> TRUE

\* the literal the assignment on a line stores
Literal(line) ==
    CASE line = 5 -> <<"autoreload", "line_profiler">>
      [] line = 8 -> TRUE
      [] line = 9 -> "Linux"
      [] line = 10 -> FALSE
      [] line = 11 -> TRUE
      [] line = 12 -> "vim"
      [] line = 13 -> "Context"
      [] line = 14 -> TRUE
      [] line = 15 -> TRUE

Section(key) == key[1]

\* setdefault: keeps a value that is already there
SetDefault(cfg, key, value) ==
    [k \in DOMAIN cfg \cup {key} |-> IF k \in DOMAIN cfg THEN cfg[k] ELSE value]

\* rebinds the whole section to an object holding only the new field
SetAttrReplaceSection(cfg, key, value) ==
    [k \in {j \in DOMAIN cfg : Section(j) # Section(key)} \cup {key} |->
        IF k = key THEN value ELSE cfg[k]]

\* accumulates: extends a list that is there, flips a boolean that is there
SetAttrAccumulate(cfg, key, value) ==
    [k \in DOMAIN cfg \cup {key} |->
        IF k # key THEN cfg[k]
        ELSE IF key \notin DOMAIN cfg THEN value
        ELSE IF key = extensions THEN cfg[key] \o value
        ELSE IF key \in {colors, editor, xmode} THEN value
        ELSE ~cfg[key]]

\* c.<Section>.<field> = value: the field holds value afterwards, whether or not
\* it existed; every other field is left as it was
SetAttr(cfg, key, value) ==
    [k \in DOMAIN cfg \cup {key} |-> IF k = key THEN value ELSE cfg[k]]

Count(w, key) == IF key \in DOMAIN w THEN w[key] ELSE 0

Wrote(w, key) == [k \in DOMAIN w \cup {key} |-> Count(w, k) + (IF k = key THEN 1 ELSE 0)]

(* ------------------------------ the host ------------------------------- *)

\* fields of the host's object that the file does not mention: one in a section
\* the file uses, one in a section it does not
automagic == <<"InteractiveShell", "automagic">>
display_banner == <<"TerminalIPythonApp", "display_banner">>

AllKeys == RecognizedKeys \cup {automagic, display_banner}

ExtNames == {"autoreload", "line_profiler", "storemagic"}

\* what the host has to find on the machine when it uses an option
HostOptional == {"vim", "line_profiler"}

RECURSIVE SeqsUpTo(_, _)
SeqsUpTo(S, n) ==
    IF n = 0 THEN {<<>>}
    ELSE LET shorter == SeqsUpTo(S, n - 1)
         IN  shorter \cup {Append(s, x) : s \in {t \in shorter : Len(t) = n - 1}, x \in S}

\* values a field may hold before the file runs
PriorValues(key, maxExt) ==
    CASE key = extensions -> SeqsUpTo(ExtNames, maxExt)
      [] key = colors -> {"Linux", "NoColor"}
      [] key = editor -> {"vim", "emacs"}
      [] key = xmode -> {"Context", "Verbose"}
      [] OTHER -> BOOLEAN

\* the object f with field k holding v
With(f, k, v) == [j \in DOMAIN f \cup {k} |-> IF j = k THEN v ELSE f[j]]

RECURSIVE ConfigsOver(_, _)
\* every object whose fields are exactly `keys`
ConfigsOver(keys, maxExt) ==
    IF keys = {} THEN {<<>>}
    ELSE LET k == CHOOSE x \in keys : TRUE
         IN  {With(f, k, v) : f \in ConfigsOver(keys \ {k}, maxExt),
                              v \in PriorValues(k, maxExt)}

\* an object on which every known field already holds what the file will store
AllLiteral ==
    [k \in AllKeys |->
        CASE k = extensions -> <<"autoreload", "line_profiler">>
          [] k = colors -> "Linux"
          [] k = editor -> "vim"
          [] k = xmode -> "Context"
          [] k = confirm_exit -> FALSE
          [] OTHER -> TRUE]

\* an object on which every known field holds something else
AllOther ==
    [k \in AllKeys |->
        CASE k = extensions -> <<"storemagic">>
          [] k = colors -> "NoColor"
          [] k = editor -> "emacs"
          [] k = xmode -> "Verbose"
          [] k = confirm_exit -> TRUE
          [] OTHER -> FALSE]

\* the objects the host may hand to the file: sparsely populated ones (the empty
\* object among them) and the two fully populated ones
PriorConfigs(maxPrior, maxExt) ==
    UNION {ConfigsOver(ks, maxExt) : ks \in {s \in SUBSET AllKeys : Cardinality(s) <= maxPrior}}
    \cup {AllLiteral, AllOther}

(* ------------------------------- states -------------------------------- *)

InitWith(priors, machines) ==
    /\ c \in priors
    /\ c0 = c
    /\ available \in machines
    /\ bound = FALSE
    /\ pc = 2
    /\ todo = Lines
    /\ failure = "none"
    /\ writes = <<>>
    /\ passes = 0
    /\ snap = <<>>
    /\ outOfOrder = FALSE

Init == InitWith(PriorConfigs(MaxPrior, MaxExt), SUBSET HostOptional)

\* line 2: c = get_config()
GetConfig ==
    /\ pc = 2
    /\ failure = "none"
    /\ bound' = TRUE
    /\ pc' = 5
    /\ UNCHANGED <<c, todo, failure, available, c0, writes, passes, snap, outOfOrder>>

\* the assignment on a line, and the history it leaves
Exec(line) ==
    /\ bound
    /\ failure = "none"
    /\ line \in todo
    /\ c' = SetAttr(c, Target(line), Literal(line))
    /\ todo' = todo \ {line}
    /\ writes' = Wrote(writes, Target(line))
    /\ outOfOrder' = (outOfOrder \/ \E l \in todo : l < line)
    /\ UNCHANGED <<bound, failure, available, c0>>

\* control passes to the line `next`; reaching the end of the file completes a pass
Goto(next) ==
    /\ pc' = next
    /\ passes' = IF next = EndOfFile THEN passes + 1 ELSE passes
    /\ snap' = IF next = EndOfFile /\ passes = 0 THEN c' ELSE snap

\* line 5 looking the extension modules up before it stores the list
L05_extensions_checked ==
    /\ pc = 5
    /\ bound
    /\ failure = "none"
    /\ IF \A i \in DOMAIN Literal(5) : Literal(5)[i] \in HostOptional => Literal(5)[i] \in available
       THEN Exec(5) /\ Goto(8)
       ELSE /\ failure' = "loader"
            /\ UNCHANGED <<c, bound, pc, todo, available, c0, writes, passes, snap, outOfOrder>>

\* line 12 looking the editor up before it stores the name
L12_editor_checked ==
    /\ pc = 12
    /\ bound
    /\ failure = "none"
    /\ IF Literal(12) \in available
       THEN Exec(12) /\ Goto(13)
       ELSE /\ failure' = "loader"
            /\ UNCHANGED <<c, bound, pc, todo, available, c0, writes, passes, snap, outOfOrder>>

L05_extensions ==
    /\ pc = 5
    /\ Exec(5)
    /\ Goto(8)
L08_autoindent ==
    /\ pc = 8
    /\ Exec(8)
    /\ Goto(9)
L09_colors ==
    /\ pc = 9
    /\ Exec(9)
    /\ Goto(10)
L10_confirm_exit ==
    /\ pc = 10
    /\ Exec(10)
    /\ Goto(11)
L11_deep_reload ==
    /\ pc = 11
    /\ Exec(11)
    /\ Goto(12)
L12_editor ==
    /\ pc = 12
    /\ Exec(12)
    /\ Goto(13)
L13_xmode ==
    /\ pc = 13
    /\ Exec(13)
    /\ Goto(14)
L14_justify ==
    /\ pc = 14
    /\ Exec(14)
    /\ Goto(15)
L15_multi_line_specials ==
    /\ pc = 15
    /\ Exec(15)
    /\ Goto(EndOfFile)

\* the script, top to bottom
LoaderNext ==
    \/ GetConfig
    \/ L05_extensions
    \/ L08_autoindent
    \/ L09_colors
    \/ L10_confirm_exit
    \/ L11_deep_reload
    \/ L12_editor
    \/ L13_xmode
    \/ L14_justify
    \/ L15_multi_line_specials

\* what the host has to resolve when it uses the options of cfg
Uses(cfg) ==
    ((IF editor \in DOMAIN cfg THEN {cfg[editor]} ELSE {})
     \cup (IF extensions \in DOMAIN cfg
           THEN {cfg[extensions][i] : i \in DOMAIN cfg[extensions]}
           ELSE {}))
    \cap HostOptional

\* the host, after the pass, uses an option whose value it cannot resolve
HostUse ==
    /\ pc = EndOfFile
    /\ failure = "none"
    /\ ~(Uses(c) \subseteq available)
    /\ failure' = "host"
    /\ UNCHANGED <<c, bound, pc, todo, available, c0, writes, passes, snap, outOfOrder>>

Next == LoaderNext \/ HostUse

Spec == Init /\ [][Next]_vars

\* the interpreter runs the script to completion
FairSpec == Spec /\ WF_vars(LoaderNext)

(* ----------------------- the file loaded again ------------------------- *)

InitTwice == InitWith(PriorConfigs(MaxPrior, MaxExt), {HostOptional})

\* the host runs the file once more against the same object
Rerun ==
    /\ pc = EndOfFile
    /\ passes < MaxPasses
    /\ pc' = 2
    /\ bound' = FALSE
    /\ todo' = Lines
    /\ writes' = <<>>
    /\ UNCHANGED <<c, failure, available, c0, passes, snap, outOfOrder>>

NextTwice == LoaderNext \/ Rerun

SpecTwice == InitTwice /\ [][NextTwice]_vars

(* ------------------- the assignments in any order ---------------------- *)

InitPerm == InitWith(PriorConfigs(MaxPriorPerm, MaxExtPerm), {HostOptional})

\* any assignment not yet executed runs next
Permuted ==
    /\ pc = 5
    /\ \E line \in todo :
          /\ Exec(line)
          /\ pc' = IF todo' = {} THEN EndOfFile ELSE pc
    /\ UNCHANGED <<passes, snap>>

NextPerm == GetConfig \/ Permuted

SpecPerm == InitPerm /\ [][NextPerm]_vars

RECURSIVE InSourceOrder(_, _)
\* the object after the assignments on `lines` have run top to bottom on cfg
InSourceOrder(cfg, lines) ==
    IF lines = {} THEN cfg
    ELSE LET last == CHOOSE l \in lines : \A m \in lines : m <= l
         IN  SetAttr(InSourceOrder(cfg, lines \ {last}), Target(last), Literal(last))

(* ------------------------------ properties ----------------------------- *)

\* the value each recognized option is documented to hold after loading
Expected(key) ==
    CASE key = extensions -> <<"autoreload", "line_profiler">>
      [] key = autoindent -> TRUE
      [] key = colors -> "Linux"
      [] key = confirm_exit -> FALSE
      [] key = deep_reload -> TRUE
      [] key = editor -> "vim"
      [] key = xmode -> "Context"
      [] key = justify -> TRUE
      [] key = multi_line_specials -> TRUE

Holds(cfg, key) == key \in DOMAIN cfg /\ cfg[key] = Expected(key)

Configured == \A k \in RecognizedKeys : Holds(c, k)

\* the field is as the host provided it: absent if it was absent, else the same value
AsProvided(key) ==
    /\ (key \in DOMAIN c) = (key \in DOMAIN c0)
    /\ key \in DOMAIN c => c[key] = c0[key]

\* C1: whatever the object held before, once the pass has run to completion the
\* nine recognized fields hold exactly their literals.
C1_FieldsHoldLiterals ==
    pc = EndOfFile =>
        /\ Holds(c, extensions) /\ Len(c[extensions]) = 2
        /\ Holds(c, autoindent)
        /\ Holds(c, colors)
        /\ Holds(c, confirm_exit)
        /\ Holds(c, deep_reload)
        /\ Holds(c, editor)
        /\ Holds(c, xmode)
        /\ Holds(c, justify)
        /\ Holds(c, multi_line_specials)

\* the pass completed on an object whose every field held something else
C1_Witness == pc = EndOfFile /\ c0 = AllOther /\ failure = "none"

\* C2: at every step of the pass, every field other than the nine recognized
\* ones is as the host provided it, and no such field appears or disappears.
C2_Frame ==
    \A k \in (DOMAIN c \cup DOMAIN c0) \ RecognizedKeys : AsProvided(k)

\* the pass completed on an object that held an unmentioned field in a section the
\* file writes to and another in a section it never names
C2_Witness ==
    /\ pc = EndOfFile
    /\ DOMAIN c0 = {automagic, display_banner}
    /\ c[automagic] = FALSE
    /\ c[display_banner] = FALSE

\* C3: after a second (or later) pass over the same object every field has the
\* value it had when the first pass completed.
C3_Idempotent == (passes >= 2 /\ pc = EndOfFile) => c = snap

\* two passes completed on an object that held a boolean the file flips and a
\* non-empty extensions list
C3_Witness ==
    /\ passes = 2
    /\ pc = EndOfFile
    /\ DOMAIN c0 = {extensions, confirm_exit}
    /\ c0[confirm_exit] = TRUE
    /\ c0[extensions] = <<"autoreload", "storemagic">>

C5_Commute == todo = {} => c = InSourceOrder(c0, Lines)

\* all nine assignments ran, not in source order, on an object whose every
\* field held something else
C5_Witness == todo = {} /\ outOfOrder /\ c0 = AllOther

\* C6 as stated: the keys present in the object are, in every state of the pass,
\* the keys the host provided.
C6_KeysAsProvided == DOMAIN c = DOMAIN c0

\* the recognized keys assigned so far in this pass
Assigned == {k \in RecognizedKeys : Count(writes, k) > 0}

\* C6 amended: in every state of the pass the keys present are the keys the host
\* provided together with the recognized keys assigned so far; no other key is
\* introduced and none is removed.
C6_KeysAmended ==
    /\ DOMAIN c = DOMAIN c0 \cup Assigned
    /\ DOMAIN writes \subseteq RecognizedKeys

\* the pass completed on the empty object, which now has the nine keys
C6_Witness == pc = EndOfFile /\ c0 = <<>> /\ DOMAIN c = RecognizedKeys

\* C7: every pass terminates, and it terminates configured: no behaviour ends
\* in an error or in a partially configured object.
C7_Terminates == <>[](pc = EndOfFile /\ Configured /\ failure # "loader")

\* the pass completed on a machine that has neither the editor nor the profiler
C7_Witness == pc = EndOfFile /\ passes = 1 /\ available = {} /\ todo = {}

\* C8: no statement of the file is guarded by a check of its value: each can
\* always execute, stores its literal whether or not the host can resolve it, and
\* never raises; a failure is the host's and comes only after the pass.
C8_Unchecked ==
    /\ failure # "loader"
    /\ failure = "host" => pc = EndOfFile
    /\ pc # EndOfFile => ENABLED LoaderNext
    /\ 12 \notin todo => Holds(c, editor)
    /\ 5 \notin todo => Holds(c, extensions)

\* the editor was stored although the machine has no such binary, and the
\* failure came from the host after the pass
C8_Witness ==
    /\ failure = "host"
    /\ "vim" \notin available
    /\ "line_profiler" \in available
    /\ Holds(c, editor)

\* what C10 asks of every state of a pass
C10_OncePerField ==
    /\ \A k \in DOMAIN writes \cup RecognizedKeys :
          /\ Count(writes, k) <= 1
          /\ Count(writes, k) = 0 => AsProvided(k)
          /\ Count(writes, k) = 1 => Holds(c, k)
    /\ pc = EndOfFile => \A k \in RecognizedKeys : Count(writes, k) = 1
    /\ pc = EndOfFile => ~ENABLED LoaderNext

====
